---- MODULE Spec2Model ----
(***************************************************************************)
(* Model of the optimization and scenario-classification engine of the     *)
(* smart-shopping-assistant:                                               *)
(*   src/agents/optimization/agent.py  (find_best_single_store,            *)
(*        find_best_multi_store, create_graph, run_optimization_agent)     *)
(*   src/agents/response/agent.py      (classificar_cenario,               *)
(*        format_response)                                                 *)
(*                                                                         *)
(* Prices and totals are Python floats in the source.  Here the prices of  *)
(* the Offer Index are whole currency units and the totals handed to the   *)
(* classifier are hundredths; where the doubles the code computes compare  *)
(* differently from the decimal values, the pairs are listed explicitly.   *)
(* A percentage is kept as an exact fraction [num, den].                   *)
(* Python lists hold references to the option dicts of price_options; a    *)
(* reference is modelled as [entry, idx]: position of the product in the   *)
(* Offer Index and position of the option in that product's list.          *)
(***************************************************************************)
EXTENDS Integers, Sequences, FiniteSets, TLC

VARIABLES
    pc,                     \* node of the optimization graph about to run
    price_options,          \* OptimizationState["price_options"] (ordered dict)
    products_not_found,     \* OptimizationState["products_not_found"]
    total_requested_items,  \* OptimizationState["total_requested_items"]
    recommendation,         \* OptimizationState["recommendation"]
    error,                  \* OptimizationState["error"]
    result,                 \* value returned by run_optimization_agent
    cls_args,               \* arguments of a call of classificar_cenario
    cls_result,             \* what that call returned (or that it raised)
    formatted_response,     \* what format_response announced
    user_data,              \* context.user_data of the Telegram user
    keyboards,              \* inline keyboards still shown in the chat
    update,                 \* the Telegram update handled last
    reply,                  \* what the bot answered to it
    prompt,                 \* item named by the last "new name" prompt
    queried_list,           \* list handed to run_query_agent last
    cleared                 \* user_data was cleared, no text message since

vars == <<pc, price_options, products_not_found, total_requested_items,
          recommendation, error, result, cls_args, cls_result,
          formatted_response, user_data, keyboards, update, reply, prompt,
          queried_list, cleared>>

clsVars == <<cls_args, cls_result>>

tgVars == <<user_data, keyboards, update, reply, prompt, queried_list, cleared>>

---------------------------------------------------------------------------
(* Bounds of the model                                                     *)

MaxOffers == 4          \* offers in the whole Offer Index
MaxItems == 10          \* largest item count handed to the classifier
MaxFound == 2           \* largest total of items found handed to the classifier
MaxNamedOffers == 2     \* offers in an Offer Index whose offers carry their own names

Products == <<"p1", "p2">>          \* the requested products, in request order
Stores == {"A", "B"}
\* product names the offers of the lookup may carry (they need not be the key)
OfferNames == {"n1", "n2"}
Prices == {-1, 0, 1, 2}
\* totals handed to the classifier directly, in hundredths of the currency unit
ClassTotals == {-100, 0, 18, 19, 20, 3000, 4000, 4500, 4999, 5000}

---------------------------------------------------------------------------
(* Python values                                                           *)

None == [none |-> TRUE]     \* a None recommendation / result field
NoError == "None"           \* error = None

\* context.user_data before any handler touched it, and after clear()
EmptyUserData == [empty |-> TRUE]
\* no update of a Telegram chat has been handled
NoUpdate == [type |-> "none", text |-> "", data |-> "", index |-> -1, name |-> ""]
NoReply == [text |-> "none", old_name |-> "", new_name |-> ""]

\* the optimization and the classifier are called without a Telegram chat
NoConversation ==
    /\ user_data = EmptyUserData
    /\ keyboards = {}
    /\ update = NoUpdate
    /\ reply = NoReply
    /\ prompt = ""
    /\ queried_list = None
    /\ cleared = FALSE

\* the messages of the error states, abbreviated
ERR_NO_TOTALS == "Nao foi possivel calcular os totais"
ERR_MULTI_STORE == "Erro ao encontrar melhor opcao de multiplos supermercados: Recomendacao de unico supermercado nao encontrada"
ERR_MULTI_ZERO_DIV == "Erro ao encontrar melhor opcao de multiplos supermercados: float division by zero"
ERR_NO_RECOMMENDATION == "Nao foi possivel gerar uma recomendacao"

Offer == [product_name : {Products[i] : i \in 1..Len(Products)},
          price : Prices, supermarket_name : Stores]

Range(s) == {s[i] : i \in 1..Len(s)}

Orderings(S) == {o \in [1..Cardinality(S) -> S] : \A i, j \in 1..Cardinality(S) : o[i] = o[j] => i = j}

\* the option dict a reference points to
OptionAt(po, r) == po[r.entry].options[r.idx]

RECURSIVE SumPrices(_, _)
SumPrices(po, refs) ==
    IF refs = <<>> THEN 0
    ELSE OptionAt(po, Head(refs)).price + SumPrices(po, Tail(refs))

\* exact fractions
Frac(n, d) == [num |-> n, den |-> d]
FracEq(a, b) == a.num * b.den = b.num * a.den

---------------------------------------------------------------------------
(* create_graph: the entry point and the edges of the compiled graph       *)

EntryPoint == "find_best_single_store"

NextNode(node) ==
    CASE node = "find_best_single_store" -> "find_best_multi_store"
      [] node = "find_best_multi_store" -> "END"

---------------------------------------------------------------------------
(* find_best_single_store                                                  *)

\* the set of store names appearing anywhere in the Offer Index
AllSupermarkets(po) ==
    UNION {{po[i].options[j].supermarket_name : j \in 1..Len(po[i].options)} :
              i \in 1..Len(po)}

\* variant of FirstOptionInStore: the first of the store's cheapest options
FirstOptionInStore_Cheapest(options, supermarket_name) ==
    LET hits == {j \in 1..Len(options) :
                    options[j].supermarket_name = supermarket_name}
        cheapest == {j \in hits : \A k \in hits : options[j].price <= options[k].price}
    IN  IF hits = {} THEN 0
        ELSE CHOOSE j \in cheapest : \A k \in cheapest : j <= k

\* position of the first option of the list sold by the store, 0 if none
FirstOptionInStore(options, supermarket_name) ==
    LET hits == {j \in 1..Len(options) :
                    options[j].supermarket_name = supermarket_name}
    IN  IF hits = {} THEN 0
        ELSE CHOOSE j \in hits : \A k \in hits : j <= k

\* variant of ItemsInStore: every offer of the store is taken, not the first
RECURSIVE ItemsInStore_AllMatches(_, _, _)
ItemsInStore_AllMatches(po, supermarket_name, i) ==
    IF i > Len(po) THEN <<>>
    ELSE LET hits == SelectSeq([j \in 1..Len(po[i].options) |-> j],
                         LAMBDA j : po[i].options[j].supermarket_name = supermarket_name)
         IN  [k \in 1..Len(hits) |-> [entry |-> i, idx |-> hits[k]]]
             \o ItemsInStore_AllMatches(po, supermarket_name, i + 1)

\* items_in_this_store: one reference per product the store sells, from
\* entry i of the Offer Index on
RECURSIVE ItemsInStore(_, _, _)
ItemsInStore(po, supermarket_name, i) ==
    IF i > Len(po) THEN <<>>
    ELSE LET j == FirstOptionInStore(po[i].options, supermarket_name)
         IN  (IF j = 0 THEN <<>> ELSE <<[entry |-> i, idx |-> j]>>)
             \o ItemsInStore(po, supermarket_name, i + 1)

\* supermarket_totals and supermarket_items_found, in the order the set of
\* store names is iterated; only stores with items get an entry
RECURSIVE SupermarketTotals(_, _)
SupermarketTotals(po, order) ==
    IF order = <<>> THEN <<>>
    ELSE LET items == ItemsInStore(po, Head(order), 1)
         IN  (IF items = <<>> THEN <<>>
              ELSE <<[supermarket_name |-> Head(order),
                      total_price |-> SumPrices(po, items),
                      items |-> items]>>)
             \o SupermarketTotals(po, Tail(order))

\* variant of BestSupermarket: the store with the most items wins, the total
\* only breaks ties
BestSupermarket_MostItems(totals) ==
    totals[CHOOSE i \in 1..Len(totals) :
              \A j \in 1..Len(totals) :
                 \/ Len(totals[i].items) > Len(totals[j].items)
                 \/ /\ Len(totals[i].items) = Len(totals[j].items)
                    /\ totals[i].total_price < totals[j].total_price
                 \/ /\ Len(totals[i].items) = Len(totals[j].items)
                    /\ totals[i].total_price = totals[j].total_price
                    /\ i <= j]

\* variant of BestSupermarket: the first entry with the greatest total
BestSupermarket_Dearest(totals) ==
    totals[CHOOSE i \in 1..Len(totals) :
              /\ \A j \in 1..Len(totals) : totals[i].total_price >= totals[j].total_price
              /\ \A j \in 1..(i - 1) : totals[j].total_price < totals[i].total_price]

\* min(supermarket_totals.items(), key=lambda x: x[1]): the first entry with
\* the least total
BestSupermarket(totals) ==
    totals[CHOOSE i \in 1..Len(totals) :
              /\ \A j \in 1..Len(totals) : totals[i].total_price <= totals[j].total_price
              /\ \A j \in 1..(i - 1) : totals[j].total_price > totals[i].total_price]

\* variant of SingleStoreState: the products whose offer list is empty are
\* appended to products_not_found
SingleStoreState_FoldEmpty(po, pnf, tri, order) ==
    LET totals == SupermarketTotals(po, order)
        empty == SelectSeq([i \in 1..Len(po) |-> i],
                           LAMBDA i : /\ po[i].options = <<>>
                                      /\ po[i].product \notin Range(pnf))
    IN  IF totals = <<>>
        THEN [recommendation |-> None, error |-> ERR_NO_TOTALS]
        ELSE [recommendation |->
                 [single_store_option |-> BestSupermarket(totals),
                  multi_store_option |-> <<>>,
                  savings |-> 0,
                  savings_percentage |-> Frac(0, 1),
                  products_not_found |->
                      pnf \o [k \in 1..Len(empty) |-> po[empty[k]].product],
                  total_requested_items |-> tri],
              error |-> NoError]

\* the state find_best_single_store returns when the set of store names is
\* iterated in the given order
SingleStoreState(po, pnf, tri, order) ==
    LET totals == SupermarketTotals(po, order)
    IN  IF totals = <<>>
        THEN [recommendation |-> None, error |-> ERR_NO_TOTALS]
        ELSE [recommendation |->
                 [single_store_option |-> BestSupermarket(totals),
                  multi_store_option |-> <<>>,
                  savings |-> 0,
                  savings_percentage |-> Frac(0, 1),
                  products_not_found |-> pnf,
                  total_requested_items |-> tri],
              error |-> NoError]

find_best_single_store ==
    /\ pc = "find_best_single_store"
    /\ \E order \in Orderings(AllSupermarkets(price_options)) :
          LET s == SingleStoreState(price_options, products_not_found,
                                    total_requested_items, order)
          IN  /\ recommendation' = s.recommendation
              /\ error' = s.error
    /\ pc' = NextNode("find_best_single_store")
    /\ UNCHANGED <<price_options, products_not_found, total_requested_items,
                   result, clsVars, formatted_response, tgVars>>

---------------------------------------------------------------------------
(* find_best_multi_store                                                   *)

\* variant of MinPriceOption: the first option with the greatest price
MinPriceOption_Dearest(options) ==
    CHOOSE j \in 1..Len(options) :
        /\ \A k \in 1..Len(options) : options[j].price >= options[k].price
        /\ \A k \in 1..(j - 1) : options[k].price < options[j].price

\* variant of MinPriceOption: the last option with the least price
MinPriceOption_Last(options) ==
    CHOOSE j \in 1..Len(options) :
        /\ \A k \in 1..Len(options) : options[j].price <= options[k].price
        /\ \A k \in (j + 1)..Len(options) : options[k].price > options[j].price

\* min(options, key=lambda x: x["price"]): position of the first option with
\* the least price
MinPriceOption(options) ==
    CHOOSE j \in 1..Len(options) :
        /\ \A k \in 1..Len(options) : options[j].price <= options[k].price
        /\ \A k \in 1..(j - 1) : options[k].price > options[j].price

\* best_prices: one reference per product with options, from entry i on
RECURSIVE BestPrices(_, _)
BestPrices(po, i) ==
    IF i > Len(po) THEN <<>>
    ELSE (IF po[i].options = <<>> THEN <<>>
          ELSE <<[entry |-> i, idx |-> MinPriceOption(po[i].options)]>>)
         \o BestPrices(po, i + 1)

\* variant of StoreKeys: a key per selected offer, seen before or not
RECURSIVE StoreKeys_NoDedup(_, _, _)
StoreKeys_NoDedup(po, refs, seen) ==
    IF refs = <<>> THEN seen
    ELSE StoreKeys_NoDedup(po, Tail(refs),
                           Append(seen, OptionAt(po, Head(refs)).supermarket_name))

\* the keys of supermarket_items, in insertion order
RECURSIVE StoreKeys(_, _, _)
StoreKeys(po, refs, seen) ==
    IF refs = <<>> THEN seen
    ELSE LET name == OptionAt(po, Head(refs)).supermarket_name
         IN  StoreKeys(po, Tail(refs),
                       IF name \in Range(seen) THEN seen ELSE Append(seen, name))

\* multi_store_options: one bundle per key of supermarket_items
MultiStoreOptions(po, best) ==
    LET keys == StoreKeys(po, best, <<>>)
        ItemsOf(name) ==
            SelectSeq(best, LAMBDA r : OptionAt(po, r).supermarket_name = name)
    IN  [k \in 1..Len(keys) |->
            [supermarket_name |-> keys[k],
             total_price |-> SumPrices(po, ItemsOf(keys[k])),
             items |-> ItemsOf(keys[k])]]

\* savings = single_store_total - multi_store_total
Savings(single_store_total, multi_store_total) ==
    single_store_total - multi_store_total

\* variant of SavingsPercentage: the division is not guarded
SavingsPercentage_NoGuard(savings, single_store_total) ==
    Frac(savings * 100, single_store_total)

\* (savings / single_store_total) * 100 if single_store_total > 0 else 0.0
\* (a fraction with denominator 0 stands for ZeroDivisionError)
SavingsPercentage(savings, single_store_total) ==
    IF single_store_total > 0
    THEN Frac(savings * 100, single_store_total)
    ELSE Frac(0, 1)

\* variant of MultiStoreState: a missing recommendation is replaced by an
\* empty single-store bundle instead of raising
MultiStoreState_NoCheck(po, pnf, tri, rec) ==
    LET base == IF rec # None THEN rec
                ELSE [single_store_option |->
                         [supermarket_name |-> "Desconhecido", total_price |-> 0,
                          items |-> <<>>],
                      multi_store_option |-> <<>>,
                      savings |-> 0,
                      savings_percentage |-> Frac(0, 1),
                      products_not_found |-> pnf,
                      total_requested_items |-> tri]
        single_store_total == base.single_store_option.total_price
        best == BestPrices(po, 1)
        savings == Savings(single_store_total, SumPrices(po, best))
    IN  [recommendation |->
            [base EXCEPT !.multi_store_option = MultiStoreOptions(po, best),
                         !.savings = savings,
                         !.savings_percentage =
                             SavingsPercentage(savings, single_store_total),
                         !.total_requested_items = tri],
         error |-> NoError]

\* variant of MultiStoreState: the Recommendation is rebuilt around the
\* multi-store option, the single-store bundle keeping only the store name
MultiStoreState_Rebuild(po, pnf, tri, rec) ==
    IF rec = None
    THEN [recommendation |-> rec, error |-> ERR_MULTI_STORE]
    ELSE LET best == BestPrices(po, 1)
             savings == Savings(rec.single_store_option.total_price, SumPrices(po, best))
         IN  [recommendation |->
                 [single_store_option |->
                      [supermarket_name |-> rec.single_store_option.supermarket_name,
                       total_price |-> SumPrices(po, best),
                       items |-> best],
                  multi_store_option |-> MultiStoreOptions(po, best),
                  savings |-> savings,
                  savings_percentage |->
                      SavingsPercentage(savings, rec.single_store_option.total_price),
                  products_not_found |-> pnf,
                  total_requested_items |-> tri],
              error |-> NoError]

\* the state find_best_multi_store returns
MultiStoreState(po, pnf, tri, rec) ==
    IF rec = None
    THEN \* raise ValueError, caught by the except clause
         [recommendation |-> rec, error |-> ERR_MULTI_STORE]
    ELSE LET single_store_total == rec.single_store_option.total_price
             best == BestPrices(po, 1)
             multi_store_total == SumPrices(po, best)
             savings == Savings(single_store_total, multi_store_total)
             savings_percentage == SavingsPercentage(savings, single_store_total)
         IN  IF savings_percentage.den = 0
             THEN [recommendation |-> rec, error |-> ERR_MULTI_ZERO_DIV]
             ELSE [recommendation |->
                      [rec EXCEPT !.multi_store_option = MultiStoreOptions(po, best),
                                  !.savings = savings,
                                  !.savings_percentage = savings_percentage,
                                  !.total_requested_items = tri],
                   error |-> NoError]

find_best_multi_store ==
    /\ pc = "find_best_multi_store"
    /\ LET s == MultiStoreState(price_options, products_not_found,
                                total_requested_items, recommendation)
       IN  /\ recommendation' = s.recommendation
           /\ error' = s.error
    /\ pc' = NextNode("find_best_multi_store")
    /\ UNCHANGED <<price_options, products_not_found, total_requested_items,
                   result, clsVars, formatted_response, tgVars>>

---------------------------------------------------------------------------
(* run_optimization_agent                                                  *)

\* what run_optimization_agent makes of the final state of the graph
RunResult(rec, err) ==
    IF err # NoError
    THEN [success |-> FALSE, error |-> err, recommendation |-> None]
    ELSE IF rec = None
    THEN [success |-> FALSE, error |-> ERR_NO_RECOMMENDATION, recommendation |-> None]
    ELSE [success |-> TRUE, error |-> NoError, recommendation |-> rec]

run_optimization_agent ==
    /\ pc = "END"
    /\ result' = RunResult(recommendation, error)
    /\ pc' = "returned"
    /\ UNCHANGED <<price_options, products_not_found, total_requested_items,
                   recommendation, error, clsVars, formatted_response, tgVars>>

\* the Offer Index of the products in `present` (positions in Products),
\* filled with the offers of `flat` in their order
RECURSIVE OfferIndex(_, _, _)
OfferIndex(present, flat, k) ==
    IF k > Len(Products) THEN <<>>
    ELSE (IF k \notin present THEN <<>>
          ELSE LET mine == SelectSeq(flat, LAMBDA o : o.key = k)
               IN  <<[product |-> Products[k],
                      options |-> [j \in 1..Len(mine) |->
                                     [product_name |-> Products[k],
                                      price |-> mine[j].price,
                                      supermarket_name |-> mine[j].supermarket_name]]]>>)
         \o OfferIndex(present, flat, k + 1)

\* the requested products that are not in `present`, in request order
RECURSIVE NotFound(_, _)
NotFound(present, k) ==
    IF k > Len(Products) THEN <<>>
    ELSE (IF k \in present THEN <<>> ELSE <<Products[k]>>) \o NotFound(present, k + 1)

\* graph.invoke on the arguments of run_optimization_agent: the products of
\* `present` are keys of the Offer Index; the caller lists the other products
\* as not found and, if list_empty, also the keys whose offer list is empty
Init ==
    /\ pc = EntryPoint
    /\ \E present \in SUBSET (1..Len(Products)), n \in 0..MaxOffers, list_empty \in BOOLEAN :
          \E flat \in [1..n -> [key : present, price : Prices, supermarket_name : Stores]] :
             LET with_offers == {flat[j].key : j \in 1..n}
             IN  /\ price_options = OfferIndex(present, flat, 1)
                 /\ products_not_found =
                       NotFound(IF list_empty THEN with_offers ELSE present, 1)
    /\ total_requested_items = Len(Products)
    /\ recommendation = None
    /\ error = NoError
    /\ result = None
    /\ cls_args = None
    /\ cls_result = None
    /\ formatted_response = None
    /\ NoConversation

---------------------------------------------------------------------------
(* classificar_cenario                                                     *)
(* Totals are given in hundredths of the currency unit and stand for the   *)
(* double nearest to that decimal; counts are integers.  The comparisons   *)
(* are made on the decimal values, except for the pairs of totals listed   *)
(* in FloatTieBelow and FloatPctAbove, where the doubles the code computes *)
(* (CPython, IEEE-754 binary64) fall on the other side of the threshold.   *)
(* On all other pairs of ClassTotals, on whole currency units up to 15 and *)
(* on counts up to 40 the doubles compare as the decimal values do.        *)

Scenarios == {"r0", "r1", "r2", "r3", "r4", "r5", "r6", "r7", "r7b", "r8"}

Abs(x) == IF x < 0 THEN -x ELSE x

\* max(encontrados_por_mercado.values()) if encontrados_por_mercado else 0
MaxItensMercado(epm) ==
    IF DOMAIN epm = {} THEN 0
    ELSE CHOOSE n \in {epm[m] : m \in DOMAIN epm} : \A m \in DOMAIN epm : epm[m] <= n

\* variant of MuitoDisperso: strict comparison
MuitoDisperso_Strict(max_itens_mercado, total_itens) ==
    10 * max_itens_mercado < 3 * total_itens

\* max_itens_mercado <= total_itens * 0.3
MuitoDisperso(max_itens_mercado, total_itens) ==
    10 * max_itens_mercado <= 3 * total_itens

\* variant of ModeradamenteDisperso: strict comparison
ModeradamenteDisperso_Strict(max_itens_mercado, total_itens) ==
    10 * max_itens_mercado < 7 * total_itens

\* max_itens_mercado <= total_itens * 0.7
ModeradamenteDisperso(max_itens_mercado, total_itens) ==
    10 * max_itens_mercado <= 7 * total_itens

\* variant of QuaseTodos: only a store with every item is nearly complete
QuaseTodos_Complete(max_itens_mercado, total_itens) ==
    max_itens_mercado >= total_itens

\* max_itens_mercado >= total_itens * 0.7
QuaseTodos(max_itens_mercado, total_itens) ==
    10 * max_itens_mercado >= 7 * total_itens

\* variant of Percentual: the ratio is not scaled to a percentage
Percentual_Ratio(diferenca, preco_centralizado) ==
    IF preco_centralizado > 0
    THEN Frac(diferenca, preco_centralizado)
    ELSE Frac(0, 1)

\* (diferenca / preco_centralizado * 100) if preco_centralizado > 0 else 0
Percentual(diferenca, preco_centralizado) ==
    IF preco_centralizado > 0
    THEN Frac(diferenca * 100, preco_centralizado)
    ELSE Frac(0, 1)

\* percentual > limit, for a fraction with a positive denominator
FracGt(f, limit) == f.num > limit * f.den

\* pairs <<preco_centralizado, preco_distribuido>> 0.01 apart whose computed
\* difference is below 0.01: 50.0 - 49.99 = 0.00999999999999801
FloatTieBelow == {<<5000, 4999>>, <<4999, 5000>>}

\* pairs whose computed percentage exceeds the decimal percentage it stands
\* for: (0.2 - 0.18) / 0.2 * 100 = 10.000000000000009 and
\* (0.2 - 0.19) / 0.2 * 100 = 5.000000000000004
FloatPctAbove == {<<20, 18>>, <<20, 19>>}

\* variant of PrecosIguais: the difference of the decimal values
PrecosIguais_Decimal(preco_centralizado, preco_distribuido) ==
    Abs(preco_centralizado - preco_distribuido) < 1

\* abs(preco_centralizado - preco_distribuido) < 0.01
PrecosIguais(preco_centralizado, preco_distribuido) ==
    \/ Abs(preco_centralizado - preco_distribuido) < 1
    \/ <<preco_centralizado, preco_distribuido>> \in FloatTieBelow

\* percentual > limit, as computed from the two totals
PercentualMaior(preco_centralizado, preco_distribuido, limit) ==
    LET percentual == Percentual(Abs(preco_centralizado - preco_distribuido),
                                 preco_centralizado)
    IN  \/ FracGt(percentual, limit)
        \/ /\ percentual.num = limit * percentual.den
           /\ <<preco_centralizado, preco_distribuido>> \in FloatPctAbove

\* variant of NenhumItemEncontrado: only a negative count is "nothing found"
NenhumItemEncontrado_Negative(itens_encontrados) == itens_encontrados < 0

\* itens_encontrados == 0
NenhumItemEncontrado(itens_encontrados) == itens_encontrados = 0

\* a returned tuple: the scenario code, a tag for the justification text and
\* the detail bag
Returned(cenario, justificativa, detalhes) ==
    [raised |-> "no", cenario |-> cenario, justificativa |-> justificativa,
     detalhes |-> detalhes]

Raised(exception) ==
    [raised |-> exception, cenario |-> "none", justificativa |-> "none",
     detalhes |-> <<>>]

classificar_cenario(total_itens, itens_encontrados, encontrados_por_mercado, preco_centralizado, preco_distribuido, nome_mercado_centralizado) ==
    LET max_itens_mercado == MaxItensMercado(encontrados_por_mercado)
        mercado_max_itens ==
            {m \in DOMAIN encontrados_por_mercado :
                encontrados_por_mercado[m] = max_itens_mercado}
        mercado_completo ==
            {m \in DOMAIN encontrados_por_mercado :
                encontrados_por_mercado[m] = total_itens}
        diferenca == Abs(preco_centralizado - preco_distribuido)
        percentual == Percentual(diferenca, preco_centralizado)
        detalhes ==
            [diferenca_valor |-> diferenca,
             diferenca_percentual |-> percentual,
             mercado_central |-> nome_mercado_centralizado,
             max_itens_mercado |-> max_itens_mercado,
             total_encontrados |-> itens_encontrados]
    IN  IF NenhumItemEncontrado(itens_encontrados)
        THEN Returned("r0", "nenhum item encontrado", <<>>)
        ELSE IF percentual.den = 0
        THEN Raised("ZeroDivisionError")
        ELSE IF mercado_completo = {}
        THEN IF MuitoDisperso(max_itens_mercado, total_itens)
             THEN Returned("r1", "muito dispersos", detalhes)
             ELSE IF ModeradamenteDisperso(max_itens_mercado, total_itens)
             THEN \* the text names mercado_max_itens[0]
                  IF mercado_max_itens = {}
                  THEN Raised("IndexError")
                  ELSE Returned("r2", "moderadamente dispersos", detalhes)
             ELSE IF QuaseTodos(max_itens_mercado, total_itens)
             THEN IF preco_centralizado <= preco_distribuido
                  THEN Returned("r3", "quase todos, mais economico", detalhes)
                  ELSE IF PercentualMaior(preco_centralizado, preco_distribuido, 10)
                  THEN Returned("r4", "quase todos, dividir e mais barato", detalhes)
                  ELSE Returned("r4", "quase todos, nao compensa dividir", detalhes)
             ELSE Returned("r5", "nenhum mercado tem todos", detalhes)
        ELSE IF PrecosIguais(preco_centralizado, preco_distribuido)
             THEN Returned("r8", "precos praticamente iguais", detalhes)
             ELSE IF preco_centralizado < preco_distribuido
             THEN Returned("r6", "todos os itens pelo menor preco", detalhes)
             ELSE IF ~PercentualMaior(preco_centralizado, preco_distribuido, 5)
             THEN Returned("r7", "diferenca pequena", detalhes)
             ELSE Returned("r7b", "distribuir e mais barato", detalhes)

\* a call of the classifier on arguments of the caller's choice
Classify ==
    /\ pc = "classificar_cenario"
    /\ cls_result' = classificar_cenario(
                        cls_args.total_itens, cls_args.itens_encontrados,
                        cls_args.encontrados_por_mercado,
                        cls_args.preco_centralizado, cls_args.preco_distribuido,
                        cls_args.nome_mercado_centralizado)
    /\ pc' = "classified"
    /\ UNCHANGED <<price_options, products_not_found, total_requested_items,
                   recommendation, error, result, cls_args, formatted_response,
                   tgVars>>

InitClassify ==
    /\ pc = "classificar_cenario"
    /\ price_options = <<>>
    /\ products_not_found = <<>>
    /\ total_requested_items = 0
    /\ recommendation = None
    /\ error = NoError
    /\ result = None
    /\ \E total_itens \in 0..MaxItems, itens_encontrados \in 0..MaxFound,
          mercados \in SUBSET Stores,
          preco_centralizado \in ClassTotals, preco_distribuido \in ClassTotals :
          \E epm \in [mercados -> 0..MaxItems], nome \in Stores :
             cls_args = [total_itens |-> total_itens,
                         itens_encontrados |-> itens_encontrados,
                         encontrados_por_mercado |-> epm,
                         preco_centralizado |-> preco_centralizado,
                         preco_distribuido |-> preco_distribuido,
                         nome_mercado_centralizado |-> nome]
    /\ cls_result = None
    /\ formatted_response = None
    /\ NoConversation

NextClassify == Classify

SpecClassify == InitClassify /\ [][NextClassify]_vars

---------------------------------------------------------------------------
(* format_response                                                         *)

ERR_FORMAT == "Erro ao formatar resposta"

\* the items of all bundles, in the order the loops of lines 139-151 visit them
RECURSIVE AllItems(_)
AllItems(multi_store_option) ==
    IF multi_store_option = <<>> THEN <<>>
    ELSE Head(multi_store_option).items \o AllItems(Tail(multi_store_option))

\* the product names of a list of items
ProductNames(po, items) ==
    {OptionAt(po, items[k]).product_name : k \in 1..Len(items)}

\* encontrados_por_mercado[store_name] = len(store_items): the size of each
\* multi-store bundle, a later bundle of the same name overwriting an earlier
EncontradosPorMercado(multi_store_option) ==
    [m \in {multi_store_option[k].supermarket_name : k \in 1..Len(multi_store_option)} |->
        LET last == CHOOSE k \in 1..Len(multi_store_option) :
                       /\ multi_store_option[k].supermarket_name = m
                       /\ \A j \in (k + 1)..Len(multi_store_option) :
                             multi_store_option[j].supermarket_name # m
        IN  Len(multi_store_option[last].items)]

\* multi_store_total_price: the price of each item whose product has not been
\* counted yet
RECURSIVE MultiStoreTotalPrice(_, _, _)
MultiStoreTotalPrice(po, items, products_counted) ==
    IF items = <<>> THEN 0
    ELSE LET item == OptionAt(po, Head(items))
         IN  IF item.product_name \in products_counted
             THEN MultiStoreTotalPrice(po, Tail(items), products_counted)
             ELSE item.price
                  + MultiStoreTotalPrice(po, Tail(items),
                                         products_counted \cup {item.product_name})

\* variant of TotalItemsFound: only the products of the bundles that the
\* single store does not sell
TotalItemsFound_Elsewhere(po, rec) ==
    Cardinality(ProductNames(po, AllItems(rec.multi_store_option))
                \ ProductNames(po, rec.single_store_option.items))

\* total_items_found: products of the single-store items or of a bundle
TotalItemsFound(po, rec) ==
    Cardinality(ProductNames(po, rec.single_store_option.items)
                \cup ProductNames(po, AllItems(rec.multi_store_option)))

\* a total of the recommendation (currency units) in the hundredths the
\* classifier works on
Hundredths(price) == price * 100

\* the arguments format_response hands to classificar_cenario
ClassifierArgs(po, rec) ==
    [total_itens |-> rec.total_requested_items,
     itens_encontrados |-> TotalItemsFound(po, rec),
     encontrados_por_mercado |-> EncontradosPorMercado(rec.multi_store_option),
     preco_centralizado |-> Hundredths(rec.single_store_option.total_price),
     preco_distribuido |->
         Hundredths(MultiStoreTotalPrice(po, AllItems(rec.multi_store_option), {})),
     nome_mercado_centralizado |-> rec.single_store_option.supermarket_name]

\* opcao_recomendada = "2", "1" if cenario in ["r3", "r6", "r7"]
OpcaoRecomendada(cenario) ==
    IF cenario \in {"r3", "r6", "r7"} THEN "1" ELSE "2"

\* run_response_agent on the recommendation of a successful optimization
format_response ==
    /\ pc = "returned"
    /\ result.success
    /\ LET args == ClassifierArgs(price_options, result.recommendation)
           classified == classificar_cenario(
                            args.total_itens, args.itens_encontrados,
                            args.encontrados_por_mercado,
                            args.preco_centralizado, args.preco_distribuido,
                            args.nome_mercado_centralizado)
       IN  /\ cls_args' = args
           /\ cls_result' = classified
           /\ formatted_response' =
                 IF classified.raised # "no"
                 THEN [error |-> ERR_FORMAT, opcao_recomendada |-> "none",
                       products_not_found |-> <<>>]
                 ELSE [error |-> NoError,
                       opcao_recomendada |-> OpcaoRecomendada(classified.cenario),
                       products_not_found |->
                           result.recommendation.products_not_found]
    /\ pc' = "formatted"
    /\ UNCHANGED <<price_options, products_not_found, total_requested_items,
                   recommendation, error, result, tgVars>>

\* the Offer Index of the products in `present`, each offer of `flat` under
\* its key and carrying the product name the lookup returned for it
RECURSIVE NamedOfferIndex(_, _, _)
NamedOfferIndex(present, flat, k) ==
    IF k > Len(Products) THEN <<>>
    ELSE (IF k \notin present THEN <<>>
          ELSE LET mine == SelectSeq(flat, LAMBDA o : o.key = k)
               IN  <<[product |-> Products[k],
                      options |-> [j \in 1..Len(mine) |->
                                     [product_name |-> mine[j].product_name,
                                      price |-> mine[j].price,
                                      supermarket_name |-> mine[j].supermarket_name]]]>>)
         \o NamedOfferIndex(present, flat, k + 1)

\* graph.invoke on an Offer Index as the price lookup fills it: a key holds
\* the rows the lookup returned for it, under the rows' own product names
InitNames ==
    /\ pc = EntryPoint
    /\ \E present \in SUBSET (1..Len(Products)), n \in 0..MaxNamedOffers :
          \E flat \in [1..n -> [key : present, price : Prices, supermarket_name : Stores, product_name : OfferNames]] :
             /\ price_options = NamedOfferIndex(present, flat, 1)
             /\ products_not_found = NotFound(present, 1)
    /\ total_requested_items = Len(Products)
    /\ recommendation = None
    /\ error = NoError
    /\ result = None
    /\ cls_args = None
    /\ cls_result = None
    /\ formatted_response = None
    /\ NoConversation

Next ==
    \/ find_best_single_store
    \/ find_best_multi_store
    \/ run_optimization_agent
    \/ format_response

Spec == Init /\ [][Next]_vars

SpecNames == InitNames /\ [][Next]_vars

---------------------------------------------------------------------------
(* Properties of the optimization pipeline                                 *)

\* the graph has run to its end without an error
Succeeded ==
    /\ pc \in {"END", "returned", "formatted"}
    /\ error = NoError
    /\ recommendation # None

\* the least price of a non-empty list of options
LeastPrice(options) ==
    CHOOSE p \in {options[j].price : j \in 1..Len(options)} :
        \A j \in 1..Len(options) : p <= options[j].price

\* the first position of the list holding its least price
FirstCheapest(options) ==
    CHOOSE j \in 1..Len(options) :
        /\ options[j].price = LeastPrice(options)
        /\ \A k \in 1..(j - 1) : options[k].price # LeastPrice(options)

\* sum of the least prices of the products that have offers, from entry i on
RECURSIVE SumLeastPrices(_, _)
SumLeastPrices(po, i) ==
    IF i > Len(po) THEN 0
    ELSE (IF po[i].options = <<>> THEN 0 ELSE LeastPrice(po[i].options))
         + SumLeastPrices(po, i + 1)

RECURSIVE SumTotals(_)
SumTotals(bundles) ==
    IF bundles = <<>> THEN 0
    ELSE Head(bundles).total_price + SumTotals(Tail(bundles))

\* the places <<bundle, position>> of the multi-store bundles that hold an
\* offer of entry i of the Offer Index
Placements(bundles, i) ==
    UNION {{<<b, k>> : k \in {k \in 1..Len(bundles[b].items) :
                                  bundles[b].items[k].entry = i}} :
              b \in 1..Len(bundles)}

\* C1: after a successful run every product with offers is in exactly one
\* multi-store bundle, the bundle of the store of its first cheapest offer;
\* products without offers are in none; the grand total is the sum of the
\* least prices.
C1_MultiStoreCoverage ==
    Succeeded =>
        LET bundles == recommendation.multi_store_option
        IN  /\ \A i \in 1..Len(price_options) :
                  LET options == price_options[i].options
                  IN  IF options = <<>>
                      THEN Placements(bundles, i) = {}
                      ELSE /\ Cardinality(Placements(bundles, i)) = 1
                           /\ \A bk \in Placements(bundles, i) :
                                 /\ bundles[bk[1]].items[bk[2]].idx = FirstCheapest(options)
                                 /\ bundles[bk[1]].supermarket_name =
                                       options[FirstCheapest(options)].supermarket_name
            /\ SumTotals(bundles) = SumLeastPrices(price_options, 1)
            /\ recommendation.single_store_option.total_price - recommendation.savings
                  = SumLeastPrices(price_options, 1)

\* a successful run on an index where one product has its least price at two
\* stores and another product has no offer
C1_Witness ==
    /\ Succeeded
    /\ pc = "returned"
    /\ \E i \in 1..Len(price_options) : price_options[i].options = <<>>
    /\ \E i \in 1..Len(price_options) :
          LET options == price_options[i].options
          IN  \E j, k \in 1..Len(options) :
                 /\ j < k
                 /\ options[j].price = LeastPrice(options)
                 /\ options[k].price = LeastPrice(options)
                 /\ options[j].supermarket_name # options[k].supermarket_name

\* the store sells the product of entry i
Carries(po, name, i) ==
    \E j \in 1..Len(po[i].options) : po[i].options[j].supermarket_name = name

\* the store's running total: the price of its first offer of every product
\* it sells, from entry i on
RECURSIVE RunningTotal(_, _, _)
RunningTotal(po, name, i) ==
    IF i > Len(po) THEN 0
    ELSE (IF Carries(po, name, i)
          THEN LET options == po[i].options
                   first == CHOOSE j \in 1..Len(options) :
                               /\ options[j].supermarket_name = name
                               /\ \A k \in 1..(j - 1) : options[k].supermarket_name # name
               IN  options[first].price
          ELSE 0)
         + RunningTotal(po, name, i + 1)

\* the number of products the store sells
Coverage(po, name) == Cardinality({i \in 1..Len(po) : Carries(po, name, i)})

\* C2: when some product has an offer, the store chosen by
\* find_best_single_store sells at least one product and its running total is
\* at most that of every other store selling at least one product.
C2_SingleStoreMinimal ==
    (pc = "find_best_multi_store" /\ AllSupermarkets(price_options) # {}) =>
        /\ recommendation # None
        /\ LET chosen == recommendation.single_store_option.supermarket_name
           IN  /\ Coverage(price_options, chosen) >= 1
               /\ \A name \in Stores :
                     Coverage(price_options, name) >= 1 =>
                        RunningTotal(price_options, chosen, 1)
                           <= RunningTotal(price_options, name, 1)

\* the chosen store sells fewer products than another store
C2_Witness ==
    /\ pc = "find_best_multi_store"
    /\ recommendation # None
    /\ \E name \in Stores :
          Coverage(price_options, name)
             > Coverage(price_options, recommendation.single_store_option.supermarket_name)

\* C3: the single-store bundle's total is the sum of the prices of its items,
\* its items are offers of the chosen store, and no product has two of them.
C3_SingleStoreBundle ==
    recommendation # None =>
        LET bundle == recommendation.single_store_option
        IN  /\ bundle.total_price = SumPrices(price_options, bundle.items)
            /\ \A k \in 1..Len(bundle.items) :
                  OptionAt(price_options, bundle.items[k]).supermarket_name
                     = bundle.supermarket_name
            /\ \A k, l \in 1..Len(bundle.items) :
                  bundle.items[k].entry = bundle.items[l].entry => k = l

\* the chosen store lists two offers for one product
C3_Witness ==
    /\ recommendation # None
    /\ \E i \in 1..Len(price_options) :
          \E j, k \in 1..Len(price_options[i].options) :
             /\ j # k
             /\ price_options[i].options[j].supermarket_name
                   = recommendation.single_store_option.supermarket_name
             /\ price_options[i].options[k].supermarket_name
                   = recommendation.single_store_option.supermarket_name

\* C4: once find_best_multi_store has completed a recommendation, savings is
\* the single-store total minus the grand total, and savings_percentage is
\* savings / single_total * 100 when single_total > 0 and 0 when it is 0.
C4_Savings ==
    (pc \in {"END", "returned"} /\ recommendation # None) =>
        LET single_total == recommendation.single_store_option.total_price
            multi_total == SumTotals(recommendation.multi_store_option)
            percentage == recommendation.savings_percentage
        IN  /\ error = NoError
            /\ recommendation.savings = single_total - multi_total
            /\ percentage.den # 0
            /\ single_total > 0 =>
                  FracEq(percentage, Frac(recommendation.savings * 100, single_total))
            /\ single_total = 0 => percentage.num = 0

\* a completed recommendation where both totals are 0
C4_Witness ==
    /\ pc = "END"
    /\ recommendation # None
    /\ recommendation.multi_store_option # <<>>
    /\ recommendation.single_store_option.total_price = 0
    /\ SumTotals(recommendation.multi_store_option) = 0
    /\ recommendation.savings_percentage.num = 0

\* C5: no two multi-store bundles have the same store name, every bundle
\* holds an offer, every bundle's total is the sum of the prices of its own
\* offers, and the bundle totals add up to the grand total.
C5_MultiStoreBundles ==
    Succeeded =>
        LET bundles == recommendation.multi_store_option
        IN  /\ \A b, c \in 1..Len(bundles) :
                  bundles[b].supermarket_name = bundles[c].supermarket_name => b = c
            /\ \A b \in 1..Len(bundles) :
                  /\ bundles[b].items # <<>>
                  /\ bundles[b].total_price = SumPrices(price_options, bundles[b].items)
            /\ SumTotals(bundles)
                  = recommendation.single_store_option.total_price - recommendation.savings

\* two products have their least price at the same store, which gets one
\* bundle holding both offers, while the other store also has offers
C5_Witness ==
    /\ Succeeded
    /\ AllSupermarkets(price_options) = Stores
    /\ Len(recommendation.multi_store_option) = 1
    /\ Len(recommendation.multi_store_option[1].items) = 2

\* C6: when no store has a matched item, run_optimization_agent returns
\* success = False without a recommendation, and the error it returns is the
\* one saying that no store total could be computed.
C6_NoViableStoreError ==
    (pc = "returned" /\ AllSupermarkets(price_options) = {}) =>
        /\ result.success = FALSE
        /\ result.recommendation = None
        /\ result.error = ERR_NO_TOTALS

\* C7: an error of the single-store selector aborts the pipeline: no step of
\* find_best_multi_store is taken from a state whose error field is set.
C7_ErrorAbortsPipeline ==
    [][error # NoError => ~find_best_multi_store]_vars

\* C8: find_best_multi_store invoked without a recommendation returns a state
\* whose error field is set and whose recommendation is still absent: no
\* bundles, totals or savings are computed.
C8_PrecedenceViolation ==
    [][(find_best_multi_store /\ recommendation = None) =>
          (recommendation' = None /\ error' # NoError /\ error' = ERR_MULTI_STORE)]_vars

\* find_best_multi_store has run without a single-store bundle
C8_Witness ==
    /\ pc = "END"
    /\ recommendation = None
    /\ error = ERR_MULTI_STORE

\* C9: a negative single-store or multi-store total is rejected: no run that
\* computed a negative total returns success.
C9_NegativeTotalRejected ==
    (/\ pc = "returned"
     /\ recommendation # None
     /\ \/ recommendation.single_store_option.total_price < 0
        \/ SumTotals(recommendation.multi_store_option) < 0)
    => result.success = FALSE

---------------------------------------------------------------------------
(* Properties of the classifier                                            *)

\* C10: for every total_requested >= 0, items-found count >= 0, found-count
\* mapping (the empty one included) and totals >= 0, classificar_cenario
\* returns a scenario code of the fixed set and does not raise.
C10_ClassifierTotal ==
    (/\ pc = "classified"
     /\ cls_args.total_itens >= 0
     /\ cls_args.itens_encontrados >= 0
     /\ cls_args.preco_centralizado >= 0
     /\ cls_args.preco_distribuido >= 0)
    => /\ cls_result.raised = "no"
       /\ cls_result.cenario \in Scenarios

\* the classifier has returned for an empty mapping, a single-store total of 0
\* and at least one item found
C10_Witness ==
    /\ pc = "classified"
    /\ DOMAIN cls_args.encontrados_por_mercado = {}
    /\ cls_args.itens_encontrados > 0
    /\ cls_args.total_itens = 0
    /\ cls_args.preco_centralizado = 0
    /\ cls_result.raised = "no"
    /\ cls_result.cenario = "r1"

\* the classifier has returned for a call with at least one item found
Classified ==
    /\ pc = "classified"
    /\ cls_args.itens_encontrados > 0

\* the greatest found-count of the mapping, 0 for the empty mapping
MaxFoundCount(epm) ==
    IF DOMAIN epm = {} THEN 0
    ELSE CHOOSE n \in 0..(MaxItems + 1) :
            /\ \E m \in DOMAIN epm : epm[m] = n
            /\ \A m \in DOMAIN epm : epm[m] <= n

\* some store's found-count equals total_requested
SomeStoreComplete ==
    \E m \in DOMAIN cls_args.encontrados_por_mercado :
        cls_args.encontrados_por_mercado[m] = cls_args.total_itens

\* both totals handed to the classifier are >= 0
TotalsNonNegative ==
    /\ cls_args.preco_centralizado >= 0
    /\ cls_args.preco_distribuido >= 0

C13_NearlyComplete ==
    (/\ Classified
     /\ TotalsNonNegative
     /\ ~SomeStoreComplete
     /\ 10 * MaxFoundCount(cls_args.encontrados_por_mercado) > 7 * cls_args.total_itens)
    => LET single_total == cls_args.preco_centralizado
           multi_total == cls_args.preco_distribuido
           material == Abs(single_total - multi_total) * 100 > 10 * single_total
       IN  /\ cls_result.cenario = "r3" <=> single_total <= multi_total
           /\ single_total > multi_total =>
                 /\ cls_result.cenario = "r4"
                 /\ cls_result.justificativa = "quase todos, dividir e mais barato"
                       <=> material
                 /\ cls_result.justificativa = "quase todos, nao compensa dividir"
                       <=> ~material

\* C14: with a complete store the scenario is r8 when the totals are tied (as
\* the code computes the difference), else r6 when single_total < multi_total,
\* else r7 when the saving is at most 5% of single_total, else r7b.
C14_CompleteStore ==
    (Classified /\ TotalsNonNegative /\ SomeStoreComplete) =>
        LET single_total == cls_args.preco_centralizado
            multi_total == cls_args.preco_distribuido
            tied == PrecosIguais(single_total, multi_total)
            marginal == (single_total - multi_total) * 100 <= 5 * single_total
        IN  cls_result.cenario =
               IF tied THEN "r8"
               ELSE IF single_total < multi_total THEN "r6"
               ELSE IF marginal THEN "r7"
               ELSE "r7b"

\* C15: total_requested 5, a store with found-count 5, single_total 50.00 and
\* multi_total 49.99 are classified as tied (r8).
C15_TieAtOneCent ==
    (/\ Classified
     /\ cls_args.total_itens = 5
     /\ \E m \in DOMAIN cls_args.encontrados_por_mercado :
           cls_args.encontrados_por_mercado[m] = 5
     /\ cls_args.preco_centralizado = 5000
     /\ cls_args.preco_distribuido = 4999)
    => cls_result.cenario = "r8"

\* the call of the example: one store, found-count 5
C15_Witness ==
    /\ Classified
    /\ cls_args.total_itens = 5
    /\ DOMAIN cls_args.encontrados_por_mercado = {"A"}
    /\ cls_args.encontrados_por_mercado["A"] = 5
    /\ cls_args.preco_centralizado = 5000
    /\ cls_args.preco_distribuido = 4999
    /\ cls_result.cenario = "r8"

\* C16: with no item found the classifier returns r0 with an empty detail
\* bag, whatever the other arguments are.
C16_NoItemsFound ==
    (pc = "classified" /\ cls_args.itens_encontrados = 0) =>
        /\ cls_result.raised = "no"
        /\ cls_result.cenario = "r0"
        /\ cls_result.detalhes = <<>>

\* r0 is returned although a store is complete and splitting is much cheaper
C16_Witness ==
    /\ pc = "classified"
    /\ cls_args.itens_encontrados = 0
    /\ SomeStoreComplete
    /\ cls_args.total_itens > 0
    /\ cls_args.preco_centralizado = 4000
    /\ cls_args.preco_distribuido = 3000
    /\ cls_result.cenario = "r0"
    /\ cls_result.detalhes = <<>>

---------------------------------------------------------------------------
(* Properties of the pipeline from the Offer Index to the response         *)

\* format_response has produced a response
Formatted ==
    /\ pc = "formatted"
    /\ formatted_response.error = NoError

\* every offer of the Offer Index has a price above 0
PricesPositive ==
    \A i \in 1..Len(price_options) : \A j \in 1..Len(price_options[i].options) :
       price_options[i].options[j].price > 0

\* the store has an offer for every requested product
CarriesEverything(po, name) ==
    \A k \in 1..Len(Products) :
       \E i \in 1..Len(po) : po[i].product = Products[k] /\ Carries(po, name, i)

\* C11: when the prices are positive and some store has an offer for every
\* requested item, the scenario
\* of the response is a complete-store scenario (r8, r6, r7, r7b), and the
\* found-count of every store handed to the classifier is the number of
\* requested items the store carries.
C11_CompleteStoreScenario ==
    (/\ Formatted
     /\ PricesPositive
     /\ \E name \in Stores : CarriesEverything(price_options, name)) =>
        /\ cls_result.cenario \in {"r6", "r7", "r7b", "r8"}
        /\ \A name \in DOMAIN cls_args.encontrados_por_mercado :
              cls_args.encontrados_por_mercado[name] = Coverage(price_options, name)

\* C17: the response announces Option 1 in every scenario that recommends the
\* single store (r3, r4 with splitting not worth it, r6, r7, r8) and Option 2
\* in the scenarios that recommend splitting.
C17_AnnouncedOption ==
    (Formatted /\ PricesPositive) =>
        LET single_store ==
               \/ cls_result.cenario \in {"r3", "r6", "r7", "r8"}
               \/ cls_result.justificativa = "quase todos, nao compensa dividir"
        IN  formatted_response.opcao_recomendada = IF single_store THEN "1" ELSE "2"

\* the Recommendation the two nodes build when the set of store names is
\* iterated in the given order
PipelineRecommendation(order) ==
    MultiStoreState(price_options, products_not_found, total_requested_items,
        SingleStoreState(price_options, products_not_found, total_requested_items,
                         order).recommendation).recommendation

\* the scenario format_response assigns to that Recommendation
PipelineScenario(order) ==
    LET args == ClassifierArgs(price_options, PipelineRecommendation(order))
    IN  classificar_cenario(args.total_itens, args.itens_encontrados,
                            args.encontrados_por_mercado,
                            args.preco_centralizado, args.preco_distribuido,
                            args.nome_mercado_centralizado).cenario

\* C19: the Recommendation and the scenario of a run are those of every run
\* on the same Offer Index and total_requested_items, whatever the iteration
\* order of the set of store names.
C19_Deterministic ==
    (Formatted /\ PricesPositive) =>
        \A order \in Orderings(AllSupermarkets(price_options)) :
           /\ PipelineRecommendation(order) = result.recommendation
           /\ PipelineScenario(order) = cls_result.cenario

\* C20: the single-store bundle holds, for every product the chosen store
\* sells, the first of that store's offers in list order and nothing else,
\* and its total is the sum of those first offers; every item of a
\* multi-store bundle has the least price of all offers of its product.
C20_FirstOfferInStore ==
    Succeeded =>
        LET single == recommendation.single_store_option
            bundles == recommendation.multi_store_option
        IN  /\ single.total_price
                  = RunningTotal(price_options, single.supermarket_name, 1)
            /\ Len(single.items) = Coverage(price_options, single.supermarket_name)
            /\ \A k \in 1..Len(single.items) :
                  LET r == single.items[k]
                      options == price_options[r.entry].options
                  IN  /\ options[r.idx].supermarket_name = single.supermarket_name
                      /\ \A j \in 1..(r.idx - 1) :
                            options[j].supermarket_name # single.supermarket_name
            /\ \A b \in 1..Len(bundles) : \A k \in 1..Len(bundles[b].items) :
                  LET r == bundles[b].items[k]
                  IN  OptionAt(price_options, r).price
                         = LeastPrice(price_options[r.entry].options)

\* the chosen store lists a cheaper offer after its first offer of a product;
\* the bundle holds the first one while the multi-store option takes the
\* cheaper one
C20_Witness ==
    /\ Succeeded
    /\ pc = "returned"
    /\ LET single == recommendation.single_store_option
       IN  \E k \in 1..Len(single.items) :
              LET r == single.items[k]
                  options == price_options[r.entry].options
              IN  /\ \E j \in (r.idx + 1)..Len(options) :
                        /\ options[j].supermarket_name = single.supermarket_name
                        /\ options[j].price < options[r.idx].price
                        /\ options[j].price = LeastPrice(options)
                  /\ \E b \in 1..Len(recommendation.multi_store_option) :
                        \E l \in 1..Len(recommendation.multi_store_option[b].items) :
                           LET q == recommendation.multi_store_option[b].items[l]
                           IN  q.entry = r.entry /\ q.idx # r.idx

\* the products of the Offer Index whose offer list is empty
EmptyListProducts(po) == {po[i].product : i \in {i \in 1..Len(po) : po[i].options = <<>>}}

\* the products of the items of the single-store bundle and of all multi-store
\* bundles of a Recommendation
BundledProducts(po, rec) ==
    ProductNames(po, rec.single_store_option.items)
       \cup ProductNames(po, AllItems(rec.multi_store_option))

\* the run is over for an Offer Index with an empty offer list and a product
\* with offers, all at prices above 0
PartialIndexDone ==
    /\ pc \in {"returned", "formatted"}
    /\ PricesPositive
    /\ EmptyListProducts(price_options) # {}
    /\ AllSupermarkets(price_options) # {}

---------------------------------------------------------------------------
(* Frame and consistency properties of the pipeline                        *)

\* C21: no step changes price_options, products_not_found or
\* total_requested_items; a recommendation carries products_not_found and
\* total_requested_items as they were passed in; and once the single-store
\* bundle is built no later step alters it.
C21_InputsUnchanged ==
    [][/\ price_options' = price_options
       /\ products_not_found' = products_not_found
       /\ total_requested_items' = total_requested_items
       /\ recommendation' # None =>
             /\ recommendation'.products_not_found = products_not_found
             /\ recommendation'.total_requested_items = total_requested_items
       /\ recommendation # None =>
             /\ recommendation' # None
             /\ recommendation'.single_store_option
                   = recommendation.single_store_option]_vars

\* find_best_multi_store has completed a recommendation whose single-store
\* bundle differs from the multi-store option, for a caller that listed a
\* product as not found
C21_Witness ==
    /\ pc = "END"
    /\ error = NoError
    /\ recommendation # None
    /\ products_not_found # <<>>
    /\ recommendation.products_not_found = products_not_found
    /\ recommendation.multi_store_option # <<>>
    /\ recommendation.single_store_option.total_price
          # SumTotals(recommendation.multi_store_option)

\* the number of products of the Offer Index that have an offer
ProductsWithOffers(po) == Cardinality({i \in 1..Len(po) : po[i].options # <<>>})

\* C23: when the chosen single store carries every product that has an offer,
\* the multi-store grand total is at most the single-store total and savings
\* is not negative; so negative savings mean the chosen store covers fewer
\* products than the multi-store option.
C23_SavingsNonNegative ==
    Succeeded =>
        LET single == recommendation.single_store_option
            full == Coverage(price_options, single.supermarket_name)
                       = ProductsWithOffers(price_options)
        IN  /\ full => /\ SumTotals(recommendation.multi_store_option) <= single.total_price
                       /\ recommendation.savings >= 0
            /\ recommendation.savings < 0 =>
                  Len(single.items) < Len(AllItems(recommendation.multi_store_option))

\* the chosen store carries both products and splitting is strictly cheaper
C23_Witness ==
    /\ Succeeded
    /\ ProductsWithOffers(price_options) = 2
    /\ Coverage(price_options, recommendation.single_store_option.supermarket_name) = 2
    /\ Len(recommendation.multi_store_option) = 2
    /\ recommendation.savings > 0

\* no store has two offers for the same product
NoDuplicateOffers ==
    \A i \in 1..Len(price_options) :
       \A j, k \in 1..Len(price_options[i].options) :
          price_options[i].options[j].supermarket_name
             = price_options[i].options[k].supermarket_name => j = k

\* the offers of different keys of the Offer Index have different product names
DistinctProductNames ==
    \A i, k \in 1..Len(price_options) :
       \A j \in 1..Len(price_options[i].options), l \in 1..Len(price_options[k].options) :
          price_options[i].options[j].product_name
             = price_options[k].options[l].product_name => i = k

\* C24: without duplicate offers of a product/store pair and with distinct
\* product names, when a multi-store bundle holds total_requested items the
\* single-store total handed to the classifier is at most the multi-store
\* total, and the scenario is neither r7 nor r7b.
C24_NoSplitWithCompleteStore ==
    (/\ Formatted
     /\ NoDuplicateOffers
     /\ DistinctProductNames
     /\ \E name \in DOMAIN cls_args.encontrados_por_mercado :
           cls_args.encontrados_por_mercado[name] = cls_args.total_itens)
    => /\ cls_args.preco_centralizado <= cls_args.preco_distribuido
       /\ cls_result.cenario \notin {"r7", "r7b"}

\* one bundle holds both requested products although the other store sells
\* one of them, and the scenario is a complete-store scenario
C24_Witness ==
    /\ Formatted
    /\ NoDuplicateOffers
    /\ Cardinality(AllSupermarkets(price_options)) = 2
    /\ \E name \in DOMAIN cls_args.encontrados_por_mercado :
          cls_args.encontrados_por_mercado[name] = cls_args.total_itens
    /\ cls_result.cenario \in {"r6", "r8"}

\* C26: a recommendation returned with success has a single-store bundle with
\* at least one offer and at least one multi-store bundle, every bundle
\* holding an offer; format_response then counts at least one item found and
\* the scenario is not r0.
C26_SuccessHasOffers ==
    /\ (pc \in {"returned", "formatted"} /\ result.success) =>
          /\ Len(result.recommendation.single_store_option.items) >= 1
          /\ Len(result.recommendation.multi_store_option) >= 1
          /\ \A b \in 1..Len(result.recommendation.multi_store_option) :
                Len(result.recommendation.multi_store_option[b].items) >= 1
    /\ pc = "formatted" =>
          /\ formatted_response.error = NoError
          /\ cls_args.itens_encontrados >= 1
          /\ cls_result.cenario # "r0"

\* a response for an Offer Index with one offer only, the other product
\* having an empty offer list
C26_Witness ==
    /\ Formatted
    /\ \E i \in 1..Len(price_options) : price_options[i].options = <<>>
    /\ Len(AllItems(result.recommendation.multi_store_option)) = 1
    /\ cls_args.itens_encontrados = 1
    /\ cls_result.cenario # "r0"

---------------------------------------------------------------------------
(* Further properties of classificar_cenario                               *)

\* C25: classificar_cenario never returns the fallback scenario r5.
C25_FallbackUnreachable ==
    pc = "classified" => cls_result.cenario # "r5"

\* a call with no complete store and max_found above 70% of total_requested:
\* the third condition is the one that holds
C25_Witness ==
    /\ Classified
    /\ ~SomeStoreComplete
    /\ 10 * MaxFoundCount(cls_args.encontrados_por_mercado) > 7 * cls_args.total_itens
    /\ cls_args.total_itens > 0
    /\ cls_result.cenario \in {"r3", "r4"}

\* C30: for every scenario other than r0 the detail bag holds the
\* non-negative difference of the two totals, that difference as a percentage
\* of single_total (0 when single_total is not positive), the single store's
\* name, the greatest found-count and the total of items found.
C30_DetailBag ==
    Classified =>
        LET detalhes == cls_result.detalhes
            single_total == cls_args.preco_centralizado
            delta == Abs(single_total - cls_args.preco_distribuido)
        IN  /\ cls_result.raised = "no"
            /\ cls_result.cenario # "r0"
            /\ detalhes.diferenca_valor = delta
            /\ detalhes.diferenca_valor >= 0
            /\ detalhes.diferenca_percentual
                  = IF single_total > 0
                    THEN Frac(delta * 100, single_total)
                    ELSE Frac(0, 1)
            /\ detalhes.mercado_central = cls_args.nome_mercado_centralizado
            /\ detalhes.max_itens_mercado
                  = MaxFoundCount(cls_args.encontrados_por_mercado)
            /\ detalhes.total_encontrados = cls_args.itens_encontrados

\* the example of the complete-store rules: 40.00 against 30.00 gives a
\* difference of 10.00, 25 %
C30_Witness ==
    /\ Classified
    /\ cls_args.preco_centralizado = 4000
    /\ cls_args.preco_distribuido = 3000
    /\ cls_result.cenario = "r7b"
    /\ cls_result.detalhes.diferenca_valor = 1000
    /\ FracEq(cls_result.detalhes.diferenca_percentual, Frac(25, 1))

\* C22: the multi-store total format_response hands to the classifier is the
\* grand total find_best_multi_store used for savings: single_total minus the
\* classifier's multi total equals the recommendation's savings.
C22_MultiTotalsAgree ==
    (Formatted /\ PricesPositive) =>
        cls_args.preco_centralizado - cls_args.preco_distribuido
           = Hundredths(result.recommendation.savings)

---------------------------------------------------------------------------
(* The Telegram conversation (src/messaging)                               *)
(* One user's chat.  A handler runs to its end before the next update is   *)
(* handled.  A button of an inline keyboard carries its callback data, and *)
(* the update of a pressed button goes to the handler that parses that     *)
(* data.  Editing a message without a reply markup takes its keyboard      *)
(* away; a message that is sent leaves the older keyboards in the chat.    *)
(* Keyboards with the same buttons are kept once.  The understanding,      *)
(* refinement, query, optimization and response agents are outside the     *)
(* conversation: their results are chosen among the shapes they return.    *)
(* Of user_data the keys corrections and processed_items, which no handler *)
(* reads back into the list, are left out.                                 *)

MaxListItems == 3       \* longest refined list an item is added to by text
MaxKeyboards == 2       \* inline keyboards shown in the chat at once

MinItems == 3           \* start_list_processing: len(items) < 3

\* text messages the user sends
Texts == {"oi", " leite "}
\* str.strip() of those texts
Strip(text) == IF text = " leite " THEN "leite" ELSE text
\* is_greeting: the stripped, lower-cased texts that hold a food word or a
\* quantity unit, that hold a greeting keyword, that are one common item
FoodOrQuantityTexts == {"leite"}
KeywordTexts == {"oi"}
CommonItemTexts == {"leite"}

is_greeting(text) ==
    LET text_lower == Strip(text)
    IN  IF text_lower \in FoodOrQuantityTexts THEN FALSE
        ELSE IF text_lower \in KeywordTexts THEN TRUE
        ELSE IF text_lower \in CommonItemTexts THEN FALSE
        ELSE TRUE

\* what run_understanding_agent returns: the items it read, or a failure
\* (which carries no shopping_list)
UnderstoodLists == {<<"arroz", "leite">>, <<"arroz", "leite", "sal">>}
UnderstandingResults == [success : BOOLEAN, items : UnderstoodLists]

\* what run_refinement_agent returns: ambiguous_items maps an item name to
\* its variants; the refined list is the list it was given
VariantNames == <<"leite integral">>
AmbiguousItems == {[name \in names |-> VariantNames] : names \in SUBSET {"leite"}}
NoAmbiguousItems == [name \in {} |-> VariantNames]
RefinementResults == [success : BOOLEAN, ambiguous_items : AmbiguousItems]

\* waiting_for_input: None, "add_item" or "modify_item_<index>"
WaitingAdd == [input |-> "add_item"]
WaitingModify(index) == [input |-> "modify_item", index |-> index]

\* initialize_state: the dict an empty user_data is filled with
InitialState ==
    [refined_list |-> <<>>,
     ambiguous_items |-> NoAmbiguousItems,
     current_ambiguous_items |-> <<>>,
     waiting_for_input |-> None]

\* get_current_state (and update_state before it updates): an empty
\* user_data is initialised first
get_current_state(ud) == IF ud = EmptyUserData THEN InitialState ELSE ud

\* list(d.keys()) of a dict whose key order the refinement decided
KeyLists(d) ==
    {keys \in [1..Cardinality(DOMAIN d) -> DOMAIN d] :
        \A i, j \in 1..Cardinality(DOMAIN d) : keys[i] = keys[j] => i = j}

\* d.get(name, [])
Get(d, name) == IF name \in DOMAIN d THEN d[name] ELSE <<>>

\* an inline button: callback data split into its word, index and name
Button(data, index, name) == [data |-> data, index |-> index, name |-> name]

\* show_list_for_confirmation: the keyboard of the message it sends
ConfirmationKeyboard(items) ==
    {Button("confirm_list", -1, ""), Button("action_add", -1, ""),
     Button("confirm_cancel", -1, "")}
    \cup (IF items # <<>>
          THEN {Button("action_modify", -1, ""), Button("action_remove", -1, "")}
          ELSE {})

\* handle_item_action: one button modify_<i> / remove_<i> per item, and back
ItemKeyboard(action, items) ==
    {Button(action, i, "") : i \in 0..(Len(items) - 1)}
    \cup {Button("back_to_list", -1, "")}

\* show_ambiguity_options: one button per variant, keep, remove
AmbiguityKeyboard(name, variants) ==
    {Button("ambig", i, name) : i \in 0..(Len(variants) - 1)}
    \cup {Button("ambig_keep", -1, name), Button("ambig_remove", -1, name)}

show_list_for_confirmation(state, shown) ==
    shown \cup {ConfirmationKeyboard(state.refined_list)}

show_ambiguity_options(state, shown) ==
    IF state.current_ambiguous_items = <<>>
    THEN show_list_for_confirmation(state, shown)
    ELSE LET current_item_name == state.current_ambiguous_items[1]
         IN  shown \cup {AmbiguityKeyboard(current_item_name,
                            Get(state.ambiguous_items, current_item_name))}

TextUpdate(text) ==
    [type |-> "text", text |-> text, data |-> "", index |-> -1, name |-> ""]
CallbackUpdate(button) ==
    [type |-> "callback", text |-> "", data |-> button.data,
     index |-> button.index, name |-> button.name]
Reply(text) == [text |-> text, old_name |-> "", new_name |-> ""]

\* the prompt for a new name stands until waiting_for_input is set again
StandingPrompt(next_state) ==
    IF next_state = EmptyUserData THEN ""
    ELSE IF next_state.waiting_for_input \in {None, WaitingAdd} THEN ""
    ELSE prompt

\* list[index] = name, on a 0-based index
SetName(items, index, name) == [items EXCEPT ![index + 1] = name]
\* list.pop(index), on a 0-based index
Pop(items, index) ==
    [i \in 1..(Len(items) - 1) |-> IF i <= index THEN items[i] ELSE items[i + 1]]
\* [item for item in items if item.product_name != name]
RECURSIVE Without(_, _)
Without(items, name) ==
    IF items = <<>> THEN <<>>
    ELSE IF Head(items) = name THEN Without(Tail(items), name)
    ELSE <<Head(items)>> \o Without(Tail(items), name)
\* the first item called name is renamed (for ... break)
RECURSIVE RenameFirst(_, _, _)
RenameFirst(items, name, variant_name) ==
    IF items = <<>> THEN <<>>
    ELSE IF Head(items) = name THEN <<variant_name>> \o Tail(items)
    ELSE <<Head(items)>> \o RenameFirst(Tail(items), name, variant_name)

\* start_list_processing, from the state handle_message initialised
start_list_processing(state) ==
    \E understanding \in UnderstandingResults, refinement \in RefinementResults :
       /\ prompt' = ""
       /\ queried_list' = None
       /\ IF ~understanding.success
          THEN \* understanding["shopping_list"] raises, the handler reports it
               /\ reply' = Reply("error")
               /\ user_data' = state
               /\ keyboards' = keyboards
          ELSE IF Len(understanding.items) < MinItems
          THEN /\ reply' = Reply("too_few_items")
               /\ user_data' = state
               /\ keyboards' = keyboards
          ELSE LET ambiguous_items == IF refinement.success
                                      THEN refinement.ambiguous_items
                                      ELSE NoAmbiguousItems
                   refined == [state EXCEPT
                                  !.refined_list = understanding.items,
                                  !.ambiguous_items = ambiguous_items]
               IN  /\ reply' = Reply("understood")
                   /\ IF DOMAIN ambiguous_items # {}
                      THEN \E keys \in KeyLists(ambiguous_items) :
                              LET asking == [refined EXCEPT
                                                !.current_ambiguous_items = keys]
                              IN  /\ user_data' = asking
                                  /\ keyboards' = show_ambiguity_options(asking, keyboards)
                      ELSE /\ user_data' = refined
                           /\ keyboards' = show_list_for_confirmation(refined, keyboards)

handle_message ==
    \E text \in Texts :
       LET state == get_current_state(user_data)
           items == state.refined_list
           waiting == state.waiting_for_input
       IN  /\ update' = TextUpdate(text)
           /\ cleared' = FALSE
           /\ IF waiting = WaitingAdd
              THEN LET added == [state EXCEPT
                                    !.refined_list = Append(items, Strip(text)),
                                    !.waiting_for_input = None]
                   IN  /\ Len(items) < MaxListItems
                       /\ user_data' = added
                       /\ reply' = [text |-> "added", old_name |-> "",
                                    new_name |-> Strip(text)]
                       /\ keyboards' = show_list_for_confirmation(added, keyboards)
                       /\ prompt' = ""
                       /\ queried_list' = None
              ELSE IF waiting # None
              THEN LET index == waiting.index
                       valid == 0 <= index /\ index < Len(items)
                       modified == [state EXCEPT
                                       !.refined_list = SetName(items, index, Strip(text)),
                                       !.waiting_for_input = None]
                       reset == [state EXCEPT !.waiting_for_input = None]
                   IN  /\ user_data' = IF valid THEN modified ELSE reset
                       /\ reply' = IF valid
                                   THEN [text |-> "modified",
                                         old_name |-> items[index + 1],
                                         new_name |-> Strip(text)]
                                   ELSE Reply("invalid_index")
                       /\ keyboards' = show_list_for_confirmation(
                                          IF valid THEN modified ELSE reset, keyboards)
                       /\ prompt' = ""
                       /\ queried_list' = None
              ELSE IF is_greeting(text)
              THEN /\ user_data' = state
                   /\ reply' = Reply("greeting")
                   /\ keyboards' = keyboards
                   /\ prompt' = ""
                   /\ queried_list' = None
              ELSE start_list_processing(state)
           /\ Cardinality(keyboards') <= MaxKeyboards

\* process_confirmed_list: the list of the state goes to run_query_agent;
\* a failure of an agent is reported and leaves the state, a success
\* clears it
process_confirmed_list(shown) ==
    LET state == get_current_state(user_data)
    IN  /\ queried_list' = state.refined_list
        /\ keyboards' = shown
        /\ \E success \in BOOLEAN :
              IF success
              THEN /\ reply' = Reply("recommendation")
                   /\ user_data' = EmptyUserData
                   /\ prompt' = ""
                   /\ cleared' = TRUE
              ELSE /\ reply' = Reply("error")
                   /\ user_data' = state
                   /\ prompt' = StandingPrompt(state)
                   /\ cleared' = cleared

handle_list_confirmation ==
    \E keyboard \in keyboards :
       \E button \in keyboard :
          /\ button.data \in {"confirm_list", "confirm_cancel"}
          /\ update' = CallbackUpdate(button)
          /\ IF button.data = "confirm_list"
             THEN process_confirmed_list(keyboards \ {keyboard})
             ELSE /\ reply' = Reply("cancelled")
                  /\ keyboards' = keyboards \ {keyboard}
                  /\ user_data' = EmptyUserData
                  /\ prompt' = ""
                  /\ cleared' = TRUE
                  /\ queried_list' = None

handle_ambiguity_selection ==
    \E keyboard \in keyboards :
       \E button \in keyboard :
          LET state == get_current_state(user_data)
              items == state.refined_list
              variants == Get(state.ambiguous_items, button.name)
              chosen == 0 <= button.index /\ button.index < Len(variants)
              selected ==
                 IF button.data = "ambig_remove"
                 THEN Without(items, button.name)
                 ELSE IF button.data = "ambig" /\ chosen
                 THEN RenameFirst(items, button.name, variants[button.index + 1])
                 ELSE items
              \* the message is edited unless the variant index is invalid
              shown == IF button.data = "ambig" /\ ~chosen
                       THEN keyboards
                       ELSE keyboards \ {keyboard}
              pending == IF state.current_ambiguous_items # <<>>
                         THEN Tail(state.current_ambiguous_items)
                         ELSE <<>>
              next == [state EXCEPT !.refined_list = selected,
                                    !.current_ambiguous_items = pending]
          IN  /\ button.data \in {"ambig", "ambig_keep", "ambig_remove"}
              /\ update' = CallbackUpdate(button)
              /\ user_data' = next
              /\ reply' = Reply(button.data)
              /\ keyboards' = show_ambiguity_options(next, shown)
              /\ Cardinality(keyboards') <= MaxKeyboards
              /\ prompt' = StandingPrompt(next)
              /\ queried_list' = None
              /\ cleared' = cleared

handle_item_action ==
    \E keyboard \in keyboards :
       \E button \in keyboard :
          LET state == get_current_state(user_data)
              items == state.refined_list
          IN  /\ button.data \in {"action_add", "action_modify", "action_remove"}
              /\ update' = CallbackUpdate(button)
              /\ IF button.data = "action_add"
                 THEN /\ user_data' = [state EXCEPT !.waiting_for_input = WaitingAdd]
                      /\ reply' = Reply("type_new_item")
                      /\ keyboards' = keyboards \ {keyboard}
                 ELSE IF items = <<>>
                 THEN /\ user_data' = state
                      /\ reply' = Reply("no_items")
                      /\ keyboards' = keyboards \ {keyboard}
                 ELSE /\ user_data' = state
                      /\ reply' = Reply("choose_item")
                      /\ keyboards' = (keyboards \ {keyboard}) \cup
                            {ItemKeyboard(IF button.data = "action_modify"
                                          THEN "modify" ELSE "remove", items)}
              /\ prompt' = StandingPrompt(user_data')
              /\ queried_list' = None
              /\ cleared' = cleared

handle_modify_item ==
    \E keyboard \in keyboards :
       \E button \in keyboard :
          LET state == get_current_state(user_data)
              items == state.refined_list
              index == button.index
          IN  /\ button.data = "modify"
              /\ update' = CallbackUpdate(button)
              /\ IF 0 <= index /\ index < Len(items)
                 THEN /\ prompt' = items[index + 1]
                      /\ reply' = Reply("type_new_name")
                      /\ user_data' = [state EXCEPT
                                          !.waiting_for_input = WaitingModify(index)]
                      /\ keyboards' = keyboards \ {keyboard}
                 ELSE /\ prompt' = StandingPrompt(state)
                      /\ reply' = Reply("item_not_found")
                      /\ user_data' = state
                      /\ keyboards' = show_list_for_confirmation(state,
                                                                 keyboards \ {keyboard})
              /\ queried_list' = None
              /\ cleared' = cleared

handle_remove_item ==
    \E keyboard \in keyboards :
       \E button \in keyboard :
          LET state == get_current_state(user_data)
              items == state.refined_list
              index == button.index
              removed == [state EXCEPT !.refined_list = Pop(items, index)]
          IN  /\ button.data = "remove"
              /\ update' = CallbackUpdate(button)
              /\ IF 0 <= index /\ index < Len(items)
                 THEN /\ reply' = [text |-> "removed", old_name |-> items[index + 1],
                                   new_name |-> ""]
                      /\ user_data' = removed
                      /\ keyboards' = show_list_for_confirmation(removed,
                                                                 keyboards \ {keyboard})
                 ELSE /\ reply' = Reply("item_not_found")
                      /\ user_data' = state
                      /\ keyboards' = show_list_for_confirmation(state,
                                                                 keyboards \ {keyboard})
              /\ prompt' = StandingPrompt(user_data')
              /\ queried_list' = None
              /\ cleared' = cleared

handle_back_to_list ==
    \E keyboard \in keyboards :
       \E button \in keyboard :
          LET state == get_current_state(user_data)
          IN  /\ button.data = "back_to_list"
              /\ update' = CallbackUpdate(button)
              /\ reply' = Reply("list")
              /\ user_data' = state
              /\ keyboards' = show_list_for_confirmation(state, keyboards)
              /\ Cardinality(keyboards') <= MaxKeyboards
              /\ prompt' = StandingPrompt(state)
              /\ queried_list' = None
              /\ cleared' = cleared

pipelineVars == <<pc, price_options, products_not_found, total_requested_items, recommendation, error, result, cls_args, cls_result, formatted_response>>

\* a chat the user has not written to yet
InitTelegram ==
    /\ pc = "telegram"
    /\ price_options = <<>>
    /\ products_not_found = <<>>
    /\ total_requested_items = 0
    /\ recommendation = None
    /\ error = NoError
    /\ result = None
    /\ cls_args = None
    /\ cls_result = None
    /\ formatted_response = None
    /\ NoConversation

NextTelegram ==
    \/ handle_message /\ UNCHANGED pipelineVars
    \/ handle_list_confirmation /\ UNCHANGED pipelineVars
    \/ handle_ambiguity_selection /\ UNCHANGED pipelineVars
    \/ handle_item_action /\ UNCHANGED pipelineVars
    \/ handle_modify_item /\ UNCHANGED pipelineVars
    \/ handle_remove_item /\ UNCHANGED pipelineVars
    \/ handle_back_to_list /\ UNCHANGED pipelineVars

SpecTelegram == InitTelegram /\ [][NextTelegram]_vars

---------------------------------------------------------------------------
(* Claims about the Telegram conversation                                  *)

\* a text message arrives while waiting_for_input is modify_item_<index>
AnswersModifyPrompt ==
    /\ update'.type = "text"
    /\ get_current_state(user_data).waiting_for_input \notin {None, WaitingAdd}

\* C27: once item i was selected for modification and the new name arrives
\* as text, the item renamed is the one whose name the prompt showed at
\* selection time, whatever callbacks were handled in between; an index no
\* longer valid is reported as an error and changes no item.
C27_RenamesPromptedItem ==
    [][AnswersModifyPrompt =>
          LET state == get_current_state(user_data)
              index == state.waiting_for_input.index
          IN  IF 0 <= index /\ index < Len(state.refined_list)
              THEN /\ reply'.text = "modified"
                   /\ reply'.old_name = prompt
                   /\ user_data'.refined_list =
                         SetName(state.refined_list, index, reply'.new_name)
              ELSE /\ reply'.text = "invalid_index"
                   /\ user_data'.refined_list = state.refined_list]_vars

\* the part of C27 about an index that is no longer valid
C27_InvalidIndexChangesNothing ==
    [][(AnswersModifyPrompt /\ reply'.text # "modified") =>
          /\ reply'.text = "invalid_index"
          /\ user_data'.refined_list = get_current_state(user_data).refined_list
          /\ user_data'.waiting_for_input = None]_vars

\* C28: the price query and the optimization are only ever run on a list of
\* at least 3 items, for every sequence of submissions, ambiguity
\* selections, add / modify / remove actions and confirmations.
C28_QueryNeedsThreeItems ==
    queried_list # None => Len(queried_list) >= MinItems

\* the state was cleared by the handler of this step
ClearsState ==
    \/ update'.data = "confirm_cancel"
    \/ update'.data = "confirm_list" /\ reply'.text = "recommendation"

\* the text of this step was taken as the name of an item
ConsumesText ==
    /\ update'.type = "text"
    /\ reply'.text \in {"added", "modified"}

\* C29: after a confirmed list was processed successfully or the user
\* cancelled, the per-user state is empty and the next text message starts
\* from the initial state (empty refined list, no ambiguous items,
\* waiting_for_input = None); a text message is consumed as an item name
\* only while waiting_for_input is add_item or modify_item_<i>, and
\* consuming it resets waiting_for_input to None.
C29_ClearedStartsAfresh ==
    [][/\ ClearsState => user_data' = EmptyUserData
       /\ (cleared /\ update'.type = "text") =>
             get_current_state(user_data) = InitialState
       /\ ConsumesText =>
             /\ get_current_state(user_data).waiting_for_input # None
             /\ user_data'.waiting_for_input = None]_vars

\* the parts of C29 about the step that clears and the step that consumes
C29_ClearingEmptiesState ==
    [][ClearsState => user_data' = EmptyUserData /\ cleared']_vars

C29_TextConsumedOnlyWhileWaiting ==
    [][ConsumesText =>
          /\ get_current_state(user_data).waiting_for_input # None
          /\ user_data'.waiting_for_input = None]_vars

\* a text message that arrives while user_data is empty starts from the
\* initial state
C29_EmptyStateStartsAfresh ==
    [][(user_data = EmptyUserData /\ update'.type = "text" /\ reply'.text = "understood") =>
          /\ user_data'.waiting_for_input = None
          /\ user_data'.refined_list \in UnderstoodLists]_vars

====
